---- MODULE Spec2Model ----
(***************************************************************************)
(* Model of the NSW Live Traffic hazard engine:                            *)
(*   - the feed client   (api.py, NswLiveTrafficApiClient.async_get_hazards)*)
(*   - the coordinator   (coordinator.py, _async_update_data)              *)
(*   - the snapshot differ (geo_location.py, update_entities and the       *)
(*     NswLiveTrafficHazardGeoLocationEntity it keeps in tracked_entities) *)
(*                                                                         *)
(* Positions are kilometres north of the equator along one meridian (not   *)
(* the prime meridian), so that the great-circle distance of two points is *)
(* the absolute difference of their positions; a missing coordinate is     *)
(* NoLat and gives an infinite distance.                                   *)
(***************************************************************************)
EXTENDS Integers, Sequences, FiniteSets, TLC

VARIABLES
    fetch,          \* the state of one call of async_get_hazards
    data,           \* coordinator.data["features"]
    refs,           \* zone.home, the device tracker and the radius options
    tracked,        \* tracked_entities: hazard id -> entity
    lastPass,       \* what the latest run of update_entities did
    phase,          \* per hazard id, the lifecycle the emitted events describe
    everAppeared,   \* ids for which Appeared was ever emitted
    everCleared,    \* ids for which Cleared was ever emitted
    net,            \* per hazard id, #Appeared - #Cleared emitted so far
    probe,          \* one record put to the scope check and to the count sensor
    scenario,       \* how far the four-poll scenario has got, and its A1 records
    conc,           \* the runs of update_entities suspended at their await
    trial,          \* two snapshots put to update_entities one after the other
    interval,       \* the scan interval option and the coordinator's update_interval
    cat_start,      \* len(all_features) when the category of the latest request began
    upstream,       \* per category, what the feed holds and how it answers the poll
    sensor,         \* a snapshot put to one count sensor, its value and its list
    flow            \* the user step of the config flow on one API key

vars == <<fetch, data, refs, tracked, lastPass, phase, everAppeared, everCleared, net,
          probe, scenario, conc, trial, interval, cat_start,
          upstream, sensor, flow>>

differVars == <<data, refs, tracked, lastPass, phase, everAppeared, everCleared, net>>

otherVars == <<conc, trial, interval, cat_start, upstream, sensor, flow>>

laterVars == <<upstream, sensor, flow>>

(***************************************************************************)
(* Bounds of the model.                                                    *)
(***************************************************************************)
MaxLen == 2         \* longest feature list one endpoint answers (feed client)
NumAdvice == 2      \* how many distinct adviceA texts the polled feed uses

(***************************************************************************)
(* Values.                                                                 *)
(***************************************************************************)
NullId == "<null>"      \* the feature has no "id" key, or it is null
NoLat == -1             \* None: no latitude known
Inf == 1000000          \* float('inf')

\* str(feature.get("id")): Python renders a missing id as the text "None".
StrId(id) == IF id = NullId THEN "None" ELSE id

Seqs(S, n) == UNION {[1..k -> S] : k \in 0..n}

RECURSIVE SeqToSet(_)
SeqToSet(s) == IF s = <<>> THEN {} ELSE {Head(s)} \cup SeqToSet(Tail(s))

RECURSIVE SelectSeqBy(_, _)
\* the subsequence of s of the elements whose id has the key k
SelectSeqBy(s, k) ==
    IF s = <<>> THEN <<>>
    ELSE IF Head(s).isDict /\ StrId(Head(s).id) = k
         THEN <<Head(s)>> \o SelectSeqBy(Tail(s), k)
         ELSE SelectSeqBy(Tail(s), k)

(***************************************************************************)
(* A feature of the feed.  isDict is FALSE for a list element that is not  *)
(* a mapping; roadsOk is FALSE when properties["roads"] is null, on which  *)
(* the attribute parsing of the entity raises.                             *)
(***************************************************************************)
Feature(id, lat, headline, advice, roadsOk, isDict) ==
    [id |-> id, geom |-> "Point", lat |-> lat, headline |-> headline,
     adviceA |-> advice, roadsOk |-> roadsOk, isDict |-> isDict, ncoords |-> 2]

NotAMapping == Feature(NullId, NoLat, "", 0, TRUE, FALSE)

(***************************************************************************)
(* The feed client.                                                        *)
(***************************************************************************)
Variants == <<"/open", "/all", "">>

ResponseKinds == {"401", "403", "400", "error", "badjson", "nofeatures", "notlist", "ok"}

Response(kind, features) == [kind |-> kind, features |-> features]

NoResponse == Response("none", <<>>)

\* api.py 136-141: whether the merge appends a feature with the id text fid
ShouldAppendNoCheck(fid, seen) == TRUE

ShouldAppend(fid, seen) == (fid # "" /\ fid \notin seen) \/ fid = ""

RECURSIVE MergeFeatures(_, _, _, _)
\* api.py 134-141: merges fs[i..] into all; raised when an element has no .get
MergeFeatures(fs, i, all, seen) ==
    IF i > Len(fs) THEN [all |-> all, seen |-> seen, raised |-> FALSE]
    ELSE IF ~fs[i].isDict THEN [all |-> all, seen |-> seen, raised |-> TRUE]
    ELSE LET fid == StrId(fs[i].id) IN
         IF ShouldAppend(fid, seen)
         THEN MergeFeatures(fs, i + 1, Append(all, fs[i]),
                            IF fid # "" THEN seen \cup {fid} ELSE seen)
         ELSE MergeFeatures(fs, i + 1, all, seen)

\* the state of a call that has not yet run its first statement
ApiCallState(paths, api_key) ==
    [paths |-> paths, api_key |-> api_key, status |-> "start", raised |-> "none",
     idx |-> 1, attempt |-> 1, all_features |-> <<>>, seen |-> {},
     success |-> FALSE, saw401 |-> FALSE, requests |-> 0, sleeps |-> 0,
     last |-> NoResponse, lastOutcome |-> "none", prev_features |-> <<>>,
     saw403 |-> FALSE, requested |-> <<>>]

\* api.py 55-72: the checks before the loop
ApiStartNoEmptyCheck(st) ==
    IF st.api_key = ""
    THEN [st EXCEPT !.status = "raised", !.raised = "InvalidApiKeyError"]
    ELSE [st EXCEPT !.status = "fetching"]

ApiStart(st) ==
    IF st.api_key = ""
    THEN [st EXCEPT !.status = "raised", !.raised = "InvalidApiKeyError"]
    ELSE IF st.paths = <<>>
         THEN [st EXCEPT !.status = "done"]
         ELSE [st EXCEPT !.status = "fetching"]

\* api.py 98-176: what the answer of one endpoint variant leads to
OutcomeAuthContinues(st, resp, mergeRaised) ==
    IF resp.kind = "ok" /\ ~mergeRaised THEN "success"
    ELSE IF st.attempt < Len(Variants) THEN "continue"
    ELSE "exhausted"

OutcomeFailureBreaks(st, resp, mergeRaised) ==
    IF resp.kind \in {"401", "403"} THEN "break"
    ELSE IF resp.kind = "ok" /\ ~mergeRaised THEN "success"
    ELSE "exhausted"

Outcome(st, resp, mergeRaised) ==
    IF resp.kind \in {"401", "403"} THEN "break"
    ELSE IF resp.kind = "ok" /\ ~mergeRaised THEN "success"
    ELSE IF st.attempt < Len(Variants) THEN "continue"
    ELSE "exhausted"

\* api.py 98-133: how the client classifies the answer of one request: an
\* authorization failure, a mapping with a "features" list, or any other failure
AnswerClass(resp) ==
    IF resp.kind \in {"401", "403"} THEN "auth"
    ELSE IF resp.kind = "ok" THEN "valid"
    ELSE "failed"

\* api.py 183-184: whether asyncio.sleep(1) follows the category that has just
\* ended with the given outcome
SleepsAfterSuccessOnly(st, outcome) == outcome = "success" /\ st.idx < Len(st.paths)

SleepsAfterCategory(st, outcome) == st.idx < Len(st.paths)

\* api.py 84-184: one request of the loops and the control flow that follows
ApiStep(st, resp) ==
    LET merged == IF resp.kind = "ok"
                  THEN MergeFeatures(resp.features, 1, st.all_features, st.seen)
                  ELSE [all |-> st.all_features, seen |-> st.seen, raised |-> FALSE]
        outcome == Outcome(st, resp, merged.raised)
        lastCategory == st.idx >= Len(st.paths)
        st1 == [st EXCEPT !.all_features = merged.all, !.seen = merged.seen,
                          !.requests = @ + 1, !.last = resp, !.lastOutcome = outcome,
                          !.prev_features = st.all_features,
                          !.saw401 = @ \/ resp.kind = "401",
                          !.saw403 = @ \/ resp.kind = "403",
                          !.requested = Append(@, [category |-> st.idx,
                                                   variant |-> Variants[st.attempt],
                                                   answer |-> AnswerClass(resp)])]
    IN  IF outcome = "continue"
        THEN [st1 EXCEPT !.attempt = @ + 1]
        ELSE [st1 EXCEPT !.success = (outcome = "success"),
                         !.attempt = 1,
                         !.idx = @ + 1,
                         !.requests = IF lastCategory THEN st1.requests ELSE 0,
                         !.sleeps = IF SleepsAfterCategory(st, outcome) THEN @ + 1 ELSE @,
                         !.status = IF lastCategory THEN "done" ELSE "fetching"]

\* api.py 187: the value async_get_hazards returns
ApiResult(st) == [type |-> "FeatureCollection", features |-> st.all_features]


(***************************************************************************)
(* The coordinator.                                                        *)
(***************************************************************************)
RECURSIVE GetHazards(_, _)
\* async_get_hazards run to its end against the upstream up[category][variant]
GetHazards(st, up) ==
    IF st.status = "start" THEN GetHazards(ApiStart(st), up)
    ELSE IF st.status = "fetching"
         THEN GetHazards(ApiStep(st, up[st.idx][st.attempt]), up)
         ELSE st

\* coordinator.py 71-100: the data handed to the listeners, or the error raised
AsyncUpdateData(st) ==
    IF st.raised = "InvalidApiKeyError"
    THEN [error |-> "ConfigEntryAuthFailed", features |-> <<>>, saw401 |-> FALSE]
    ELSE [error |-> "none", features |-> ApiResult(st).features, saw401 |-> FALSE]

(***************************************************************************)
(* The proximity filter of update_entities.                                *)
(***************************************************************************)
DEFAULT_HOME_RADIUS_KM == 10
DEFAULT_DEVICE_RADIUS_KM == 5

HaversineDistance(lat1, lat2) ==
    IF lat1 = NoLat \/ lat2 = NoLat THEN Inf
    ELSE IF lat1 >= lat2 THEN lat1 - lat2 ELSE lat2 - lat1

\* geo_location.py 113-120: the record is skipped as incomplete
SkippedForIdOnly(f) == StrId(f.id) = ""

Skipped(f) ==
    \/ StrId(f.id) = ""
    \/ f.geom # "Point"
    \/ f.lat = NoLat
    \/ f.ncoords < 2

IsNearHome(f, r) ==
    /\ r.home # NoLat
    /\ HaversineDistance(r.home, f.lat) <= r.home_radius_km

\* geo_location.py 128-133: some monitored device tracker is within its radius
IsNearDeviceNoShortCircuit(f, r) ==
    \E i \in 1..Len(r.devices) :
        HaversineDistance(r.devices[i], f.lat) <= r.device_radius_km

IsNearDevice(f, r) ==
    /\ ~IsNearHome(f, r)
    /\ \E i \in 1..Len(r.devices) :
           HaversineDistance(r.devices[i], f.lat) <= r.device_radius_km

\* the first i of 1..n with P[i], or n + 1
FirstIndex(P, n) == IF \E i \in 1..n : P[i] THEN CHOOSE i \in 1..n : P[i] /\ \A j \in 1..(i - 1) : ~P[j]
                    ELSE n + 1

\* geo_location.py 123-133: the reference points haversine_distance is called
\* on for the record f, in the order of the calls (0 is home, i the i-th device)
GeoEvaluated(f, r) ==
    LET hit == [i \in 1..Len(r.devices) |->
                   HaversineDistance(r.devices[i], f.lat) <= r.device_radius_km]
        last == FirstIndex(hit, Len(r.devices))
    IN  (IF r.home # NoLat THEN <<0>> ELSE <<>>)
            \o (IF IsNearHome(f, r) THEN <<>>
                ELSE [i \in 1..(IF last > Len(r.devices) THEN Len(r.devices) ELSE last) |-> i])

\* geo_location.py 107-139: the record is put into hazards_in_scope
InScope(f, r) ==
    /\ f.isDict
    /\ ~Skipped(f)
    /\ (IsNearHome(f, r) \/ IsNearDevice(f, r))

RECURSIVE ScopeKeys(_, _, _)
\* the keys of hazards_in_scope in insertion order
ScopeKeys(fs, r, acc) ==
    IF fs = <<>> THEN acc
    ELSE LET f == Head(fs)
             k == StrId(f.id)
         IN  IF InScope(f, r) /\ k \notin SeqToSet(acc)
             THEN ScopeKeys(Tail(fs), r, Append(acc, k))
             ELSE ScopeKeys(Tail(fs), r, acc)

RECURSIVE InScopeSeq(_, _)
InScopeSeq(fs, r) ==
    IF fs = <<>> THEN <<>>
    ELSE IF InScope(Head(fs), r)
         THEN <<Head(fs)>> \o InScopeSeq(Tail(fs), r)
         ELSE InScopeSeq(Tail(fs), r)

\* hazards_in_scope: hazard id -> feature (a later feature of the same id replaces)
HazardsInScope(fs, r) ==
    [k \in SeqToSet(ScopeKeys(fs, r, <<>>)) |->
        LET same == SelectSeqBy(InScopeSeq(fs, r), k) IN same[Len(same)]]

(***************************************************************************)
(* The count sensor's proximity test (sensor.py).                          *)
(***************************************************************************)
\* sensor.py 177, 187: (distance / 1000) <= radius
SensorWithin(d, radius_km) == d # Inf /\ d <= 1000 * radius_km

\* sensor.py 175-178 and 267-272
SensorNearHome(f, r) ==
    /\ r.home # NoLat
    /\ r.home_radius_km > 0
    /\ SensorWithin(HaversineDistance(r.home, f.lat), r.home_radius_km)

\* sensor.py 183, 277: the tracker's latitude and longitude are truthy
SensorTrackerUsable(lat) == lat # NoLat /\ lat # 0

\* sensor.py 181-189 and 275-285: whether the i-th tracker matches the record
SensorTrackerHit(f, r) ==
    [i \in 1..Len(r.devices) |->
        /\ SensorTrackerUsable(r.devices[i])
        /\ SensorWithin(HaversineDistance(r.devices[i], f.lat), r.device_radius_km)]

\* sensor.py 153-191: is_nearby of native_value
SensorNearby(f, r) ==
    /\ f.isDict
    /\ f.lat # NoLat
    /\ f.ncoords >= 2
    /\ \/ SensorNearHome(f, r)
       \/ r.device_radius_km > 0 /\ \E i \in 1..Len(r.devices) : SensorTrackerHit(f, r)[i]

\* sensor.py 263-285: zone_type_val and the point it names (0 is home, i the
\* i-th tracker); "none" when the record is left out of the list
SensorZone(f, r) ==
    IF ~f.isDict \/ f.lat = NoLat \/ f.ncoords < 2 THEN [zone_type |-> "none", point |-> 0]
    ELSE IF SensorNearHome(f, r) THEN [zone_type |-> "home", point |-> 0]
    ELSE IF r.device_radius_km > 0 /\ \E i \in 1..Len(r.devices) : SensorTrackerHit(f, r)[i]
         THEN [zone_type |-> "device_tracker",
               point |-> FirstIndex(SensorTrackerHit(f, r), Len(r.devices))]
         ELSE [zone_type |-> "none", point |-> 0]

\* sensor.py 267-285: the reference points haversine_distance is called on
SensorEvaluated(f, r) ==
    LET last == FirstIndex(SensorTrackerHit(f, r), Len(r.devices))
        upto == IF last > Len(r.devices) THEN Len(r.devices) ELSE last
    IN  (IF r.home # NoLat /\ r.home_radius_km > 0 THEN <<0>> ELSE <<>>)
            \o (IF SensorNearHome(f, r) \/ r.device_radius_km <= 0 THEN <<>>
                ELSE SelectSeq([i \in 1..upto |-> i],
                               LAMBDA i : SensorTrackerUsable(r.devices[i])))

(***************************************************************************)
(* The tracked entity (NswLiveTrafficHazardGeoLocationEntity).             *)
(***************************************************************************)
SIGNIFICANT_ATTRIBUTE_KEYS == {"advice_a"}

\* geo_location.py 378-417
ExtraStateAttributes(f) == [advice_a |-> f.adviceA]

\* geo_location.py 391: the comprehension over properties["roads"] raises
ParseRaises(f) == ~f.roadsOk

\* geo_location.py 299-337, 339-417: the entity after a successful parse of f
Entity(f) ==
    [name |-> f.headline, latitude |-> IF f.ncoords = 2 THEN f.lat ELSE NoLat,
     attrs |-> ExtraStateAttributes(f)]

\* geo_location.py 341-374: what update_hazard_data has written when the parse raises
HalfUpdated(e, f) ==
    [e EXCEPT !.name = f.headline, !.latitude = IF f.ncoords = 2 THEN f.lat ELSE NoLat]

\* geo_location.py 177-182
ChangedSignificantAttrsNone(old, new) == {}

ChangedSignificantAttrs(old, new) ==
    {[key |-> k, old |-> old[k], new |-> new[k]] :
        k \in {x \in SIGNIFICANT_ATTRIBUTE_KEYS : old[x] # new[x]}}

EmptyMap == [x \in {} |-> 0]

Put(m, k, v) == [x \in DOMAIN m \cup {k} |-> IF x = k THEN v ELSE m[x]]

Pop(m, k) == [x \in DOMAIN m \ {k} |-> m[x]]

\* the payload of hass.bus.async_fire (154-161, 186-194, 205-210)
Event(kind, id, e, changes) ==
    [kind |-> kind, hazard_id |-> id, name |-> e.name,
     latitude |-> IF kind = "Cleared" THEN NoLat ELSE e.latitude,
     attrs |-> e.attrs, changes |-> changes]

(***************************************************************************)
(* The snapshot differ (update_entities).                                  *)
(***************************************************************************)
\* geo_location.py 145
IsNewAlways(k, current) == TRUE

IsNew(k, current) == k \notin current

\* geo_location.py 154-161: the new-hazard event fired for a created entity
NewHazardEventsNone(k, e) == <<>>

NewHazardEvents(k, e) == <<Event("Appeared", k, e, {})>>

\* geo_location.py 201
ClearedIdsAll(current, active) == current

ClearedIds(current, active) == current \ active

\* geo_location.py 184: whether the details-updated event is fired
FiresUpdatedAlways(changes) == TRUE

FiresUpdated(changes) == changes # {}

RECURSIVE ProcessScope(_, _, _, _, _)
\* geo_location.py 144-195: the loop over hazards_in_scope
ProcessScope(keys, scope, current, trk, events) ==
    IF keys = <<>> THEN [tracked |-> trk, events |-> events, raised |-> FALSE]
    ELSE LET k == Head(keys)
             f == scope[k]
         IN  IF IsNew(k, current)
             THEN IF ParseRaises(f)
                  THEN ProcessScope(Tail(keys), scope, current, trk, events)
                  ELSE ProcessScope(Tail(keys), scope, current, Put(trk, k, Entity(f)),
                                    events \o NewHazardEvents(k, Entity(f)))
             ELSE IF ParseRaises(f)
                  THEN [tracked |-> Put(trk, k, HalfUpdated(trk[k], f)),
                        events |-> events, raised |-> TRUE]
                  ELSE LET changes == ChangedSignificantAttrs(trk[k].attrs,
                                                              ExtraStateAttributes(f))
                       IN  ProcessScope(Tail(keys), scope, current, Put(trk, k, Entity(f)),
                                        IF FiresUpdated(changes)
                                        THEN Append(events, Event("Updated", k, Entity(f), changes))
                                        ELSE events)

RECURSIVE ClearHazards(_, _, _)
\* geo_location.py 202-219: the loop over cleared_hazard_ids
ClearHazards(ids, trk, events) ==
    IF ids = {} THEN [tracked |-> trk, events |-> events]
    ELSE LET k == CHOOSE x \in ids : TRUE
         IN  ClearHazards(ids \ {k}, Pop(trk, k),
                          Append(events, Event("Cleared", k, trk[k], {})))

\* geo_location.py 74-219: one run of update_entities on the features fs
UpdateEntities(fs, r, trk) ==
    LET current == DOMAIN trk
        scope == HazardsInScope(fs, r)
        active == DOMAIN scope
        processed == ProcessScope(ScopeKeys(fs, r, <<>>), scope, current, trk, <<>>)
        cleared == ClearHazards(ClearedIds(current, active), processed.tracked,
                                processed.events)
    IN  IF processed.raised
        THEN [tracked |-> processed.tracked, events |-> processed.events,
              completed |-> FALSE, scope |-> scope]
        ELSE [tracked |-> cleared.tracked, events |-> cleared.events,
              completed |-> TRUE, scope |-> scope]

(***************************************************************************)
(* What the emitted events say, event by event.                            *)
(***************************************************************************)
PhaseAfter(p, kind) ==
    IF kind = "Appeared" THEN (IF p = "Absent" THEN "Tracked" ELSE "Error")
    ELSE IF kind = "Updated" THEN (IF p = "Tracked" THEN "Tracked" ELSE "Error")
    ELSE (IF p = "Tracked" THEN "Absent" ELSE "Error")

RECURSIVE PhaseOf(_, _, _)
PhaseOf(p, k, events) ==
    IF events = <<>> THEN p
    ELSE PhaseOf(IF Head(events).hazard_id = k THEN PhaseAfter(p, Head(events).kind) ELSE p,
                 k, Tail(events))

RECURSIVE Count(_, _, _)
Count(events, kind, k) ==
    IF events = <<>> THEN 0
    ELSE (IF Head(events).kind = kind /\ Head(events).hazard_id = k THEN 1 ELSE 0)
             + Count(Tail(events), kind, k)

IdsOf(events, kind) == {events[i].hazard_id : i \in {j \in 1..Len(events) : events[j].kind = kind}}

Clip(n) == IF n > 3 THEN 3 ELSE IF n < -3 THEN -3 ELSE n

(***************************************************************************)
(* The feed client alone: every call, answer by answer.                    *)
(***************************************************************************)
ApiIds == {"A1", NullId}
ApiAdvice == {1, 2}
ApiFeatures == {Feature("A1", 0, "h", a, TRUE, TRUE) : a \in ApiAdvice}
                   \cup {Feature(NullId, 0, "h", 1, TRUE, TRUE), NotAMapping}
EmptyIdFeature == Feature("", 0, "h", 1, TRUE, TRUE)
ApiPaths == {<<>>, <<"incident">>, <<"incident", "roadwork">>}
ApiKeys == {"", "key"}
ApiResponses ==
    {Response(k, <<>>) : k \in ResponseKinds \ {"ok"}}
        \cup {Response("ok", fs) : fs \in Seqs(ApiFeatures, MaxLen)}
        \cup {Response("ok", <<EmptyIdFeature, f>>) : f \in ApiFeatures \cup {EmptyIdFeature}}

(***************************************************************************)
(* The polled feed and the reference points of the whole engine.           *)
(***************************************************************************)
PollIds == {"A1", "A2", NullId}
PollLats == {0, 30}
PollPaths == <<"incident", "roadwork">>
PollFeatures ==
    {Feature("A1", l, "h", a, TRUE, TRUE) : l \in PollLats, a \in 1..NumAdvice}
        \cup {Feature(i, 0, "h", 1, TRUE, TRUE) : i \in {"A2", NullId}}
        \cup {Feature("A1", 0, "h", NumAdvice, FALSE, TRUE)}
Always(resp) == [v \in 1..Len(Variants) |-> resp]
PollBehaviours ==
    {Always(Response("401", <<>>)), Always(Response("error", <<>>)),
     Always(Response("ok", <<>>))}
        \cup {Always(Response("ok", <<f>>)) : f \in PollFeatures}
PollUpstreams == [1..Len(PollPaths) -> PollBehaviours]
\* what a refresh of the coordinator can hand over: _async_update_data on
\* async_get_hazards, for every upstream of the poll
PollResults ==
    {LET st == GetHazards(ApiCallState(PollPaths, "key"), up)
     IN  [AsyncUpdateData(st) EXCEPT !.saw401 = st.saw401] : up \in PollUpstreams}
AllKeys == {StrId(i) : i \in PollIds}
RefChoices ==
    [home : {NoLat, 0}, home_radius_km : {DEFAULT_HOME_RADIUS_KM},
     devices : {<<>>, <<30>>}, device_radius_km : {DEFAULT_DEVICE_RADIUS_KM}]

\* a record and reference points that have been put to no check yet
Probe(f, r) ==
    [f |-> f, r |-> r, stage |-> "input", in_scope |-> FALSE, is_near_home |-> FALSE,
     is_near_device |-> FALSE, evaluated |-> <<>>, nearby |-> FALSE,
     zone |-> [zone_type |-> "none", point |-> 0], sensor_evaluated |-> <<>>]

NoProbe == Probe(NotAMapping, [home |-> NoLat, home_radius_km |-> DEFAULT_HOME_RADIUS_KM,
                               devices |-> <<>>,
                               device_radius_km |-> DEFAULT_DEVICE_RADIUS_KM])

\* the scenario before its first poll
NoScenario == [step |-> 0, first |-> NotAMapping, second |-> NotAMapping, old |-> NotAMapping]

\* no run of update_entities is suspended
NoConc == [inflight |-> <<>>, outcome |-> "none"]

\* no snapshots under trial
NoTrial == [stage |-> "none"]

\* no coordinator built
NoInterval == [stage |-> "none"]

\* no poll of an upstream yet
NoUpstream == <<>>

\* no snapshot put to the sensor
NoSensor == [stage |-> "none"]

\* no config flow started
NoFlow == [stage |-> "none"]

LaterInit ==
    /\ upstream = NoUpstream
    /\ sensor = NoSensor
    /\ flow = NoFlow

OtherInit ==
    /\ conc = NoConc
    /\ trial = NoTrial
    /\ interval = NoInterval
    /\ cat_start = 0
    /\ LaterInit

NoPass == [trigger |-> "none", failed |-> FALSE, completed |-> TRUE, events |-> <<>>,
           scope |-> {}, before |-> {}, saw401 |-> FALSE, processed |-> FALSE,
           repeat |-> FALSE, kept |-> TRUE]

DifferInit ==
    /\ data = <<>>
    /\ refs = [home |-> 0, home_radius_km |-> DEFAULT_HOME_RADIUS_KM,
               devices |-> <<>>, device_radius_km |-> DEFAULT_DEVICE_RADIUS_KM]
    /\ tracked = EmptyMap
    /\ lastPass = NoPass
    /\ phase = [k \in AllKeys |-> "Absent"]
    /\ everAppeared = {}
    /\ everCleared = {}
    /\ net = [k \in AllKeys |-> 0]

InitApi ==
    /\ fetch \in {ApiCallState(p, k) : p \in ApiPaths, k \in ApiKeys}
    /\ DifferInit
    /\ probe = NoProbe
    /\ scenario = NoScenario
    /\ OtherInit

ApiCall ==
    /\ fetch.status = "start"
    /\ fetch' = ApiStart(fetch)
    /\ UNCHANGED <<differVars, probe, scenario, otherVars>>

ApiRequest ==
    /\ fetch.status = "fetching"
    /\ \E resp \in ApiResponses : fetch' = ApiStep(fetch, resp)
    /\ UNCHANGED <<differVars, probe, scenario, otherVars>>

NextApi == ApiCall \/ ApiRequest

SpecApi == InitApi /\ [][NextApi]_vars

(***************************************************************************)
(* The feed client again, with a note of where each category's features    *)
(* begin in all_features; answers are feature lists or connection errors.  *)
(***************************************************************************)
OrderFeatures ==
    {Feature("A1", 0, "h", 1, TRUE, TRUE), Feature(NullId, 0, "h", 1, TRUE, TRUE), NotAMapping}

OrderResponses ==
    {Response("error", <<>>)} \cup {Response("ok", fs) : fs \in Seqs(OrderFeatures, MaxLen)}

InitOrder ==
    /\ fetch \in {ApiCallState(p, "key") : p \in ApiPaths}
    /\ DifferInit
    /\ probe = NoProbe
    /\ scenario = NoScenario
    /\ OtherInit

\* api.py 55-72
OrderCall ==
    /\ fetch.status = "start"
    /\ fetch' = ApiStart(fetch)
    /\ UNCHANGED <<differVars, probe, scenario, conc, trial, interval, cat_start, laterVars>>

\* api.py 84-184: one request; the first request of a category finds
\* all_features as the earlier categories left it
OrderRequest ==
    /\ fetch.status = "fetching"
    /\ \E resp \in OrderResponses : fetch' = ApiStep(fetch, resp)
    /\ cat_start' = IF fetch.attempt = 1 THEN Len(fetch.all_features) ELSE cat_start
    /\ UNCHANGED <<differVars, probe, scenario, conc, trial, interval, laterVars>>

NextOrder == OrderCall \/ OrderRequest

SpecOrder == InitOrder /\ [][NextOrder]_vars

(***************************************************************************)
(* The whole engine: polls and location changes, each running the differ.  *)
(***************************************************************************)
\* update_entities run on the features fs with the reference points r, and the
\* record of what it emitted
RunPass(trigger, fs, r, saw401) ==
    \E res \in {UpdateEntities(fs, r, tracked)} :
    /\ data' = fs
    /\ refs' = r
    /\ tracked' = res.tracked
    /\ lastPass' = [trigger |-> trigger, failed |-> FALSE, completed |-> res.completed,
                    events |-> res.events, scope |-> DOMAIN res.scope,
                    before |-> DOMAIN tracked, saw401 |-> saw401,
                    processed |-> trigger = "coordinator" /\ res.completed,
                    repeat |-> /\ lastPass.trigger # "none"
                               /\ ScopeKeys(fs, r, <<>>) = ScopeKeys(data, refs, <<>>)
                               /\ res.scope = HazardsInScope(data, refs),
                    kept |-> res.tracked = tracked]
    /\ phase' = [k \in AllKeys |-> PhaseOf(phase[k], k, res.events)]
    /\ everAppeared' = everAppeared \cup IdsOf(res.events, "Appeared")
    /\ everCleared' = everCleared \cup IdsOf(res.events, "Cleared")
    /\ net' = [k \in AllKeys |-> Clip(net[k] + Count(res.events, "Appeared", k)
                                         - Count(res.events, "Cleared", k))]

Init ==
    /\ fetch = ApiCallState(PollPaths, "key")
    /\ DifferInit
    /\ probe = NoProbe
    /\ scenario = NoScenario
    /\ OtherInit

\* coordinator.py 63-100 and geo_location.py 221-227: a refresh of the
\* coordinator, then coordinator_updated
Poll ==
    /\ \E res \in PollResults :
             IF res.error = "none"
             THEN RunPass("coordinator", res.features, refs, res.saw401)
             ELSE /\ lastPass' = [lastPass EXCEPT !.failed = TRUE, !.completed = FALSE,
                                                  !.events = <<>>, !.before = DOMAIN tracked,
                                                  !.saw401 = res.saw401, !.processed = FALSE,
                                                  !.repeat = FALSE, !.kept = TRUE]
                  /\ UNCHANGED <<data, refs, tracked, phase, everAppeared, everCleared, net>>
    /\ UNCHANGED <<fetch, probe, scenario, otherVars>>

\* geo_location.py 233-237: options, zone or device tracker change
OptionsOrLocationChanged ==
    /\ \E r \in RefChoices : RunPass("options_or_location", data, r, FALSE)
    /\ UNCHANGED <<fetch, probe, scenario, otherVars>>

Next == Poll \/ OptionsOrLocationChanged

Spec == Init /\ [][Next]_vars

(***************************************************************************)
(* The proximity tests alone: one record against every choice of home,     *)
(* device trackers and radii.                                              *)
(***************************************************************************)
MaxDevices == 2
ProbeLats == {NoLat, 0, 10, 11, 30, 35, 36}
ProbeGeoms == {"Point", "LineString"}
ProbeFeatures ==
    {[Feature("A1", l, "h", 1, TRUE, TRUE) EXCEPT !.geom = g] : l \in ProbeLats, g \in ProbeGeoms}
ProbeRefs ==
    [home : {NoLat, 0}, home_radius_km : {0, DEFAULT_HOME_RADIUS_KM},
     devices : Seqs({0, 30}, MaxDevices), device_radius_km : {0, DEFAULT_DEVICE_RADIUS_KM}]

InitFilter ==
    /\ fetch = ApiCallState(PollPaths, "key")
    /\ DifferInit
    /\ probe \in {Probe(f, r) : f \in ProbeFeatures, r \in ProbeRefs}
    /\ scenario = NoScenario
    /\ OtherInit

\* geo_location.py 107-139: the scope check of update_entities on the record
ScopeCheck ==
    /\ probe.stage = "input"
    /\ probe' = [probe EXCEPT !.stage = "scope",
                              !.in_scope = InScope(probe.f, probe.r),
                              !.is_near_home = ~Skipped(probe.f) /\ IsNearHome(probe.f, probe.r),
                              !.is_near_device = ~Skipped(probe.f) /\ IsNearDevice(probe.f, probe.r),
                              !.evaluated = IF Skipped(probe.f) THEN <<>>
                                            ELSE GeoEvaluated(probe.f, probe.r)]
    /\ UNCHANGED <<fetch, differVars, scenario, otherVars>>

\* sensor.py 153-191 and 234-287: the count sensor on the same record
SensorCheck ==
    /\ probe.stage = "scope"
    /\ probe' = [probe EXCEPT !.stage = "sensor",
                              !.nearby = SensorNearby(probe.f, probe.r),
                              !.zone = SensorZone(probe.f, probe.r),
                              !.sensor_evaluated = IF probe.f.lat = NoLat THEN <<>>
                                                   ELSE SensorEvaluated(probe.f, probe.r)]
    /\ UNCHANGED <<fetch, differVars, scenario, otherVars>>

NextFilter == ScopeCheck \/ SensorCheck

SpecFilter == InitFilter /\ [][NextFilter]_vars

(***************************************************************************)
(* The four-poll scenario: both categories answer hazard A1 within range   *)
(* of home; then the same data; then A1 with another adviceA; then no A1.  *)
(***************************************************************************)
ScenarioLats == {0, 1, DEFAULT_HOME_RADIUS_KM}
ScenarioA1 == {Feature("A1", l, "h", a, TRUE, TRUE) : l \in ScenarioLats, a \in 1..NumAdvice}
ScenarioRest == {<<>>, <<Feature("A2", 30, "h", 1, TRUE, TRUE)>>}

\* an endpoint whose variants fail before variant v and answer fs from v on
FirstOkAt(v, fs) ==
    [i \in 1..Len(Variants) |->
        IF i < v THEN Response("error", <<>>) ELSE Response("ok", fs)]

\* coordinator.py 63-100 and geo_location.py 221-227: one refresh against the
\* upstream up, then coordinator_updated
ScenarioPoll(up) ==
    \E st \in {GetHazards(ApiCallState(PollPaths, "key"), up)} :
        /\ AsyncUpdateData(st).error = "none"
        /\ RunPass("coordinator", AsyncUpdateData(st).features, refs, st.saw401)

InitScenario ==
    /\ fetch = ApiCallState(PollPaths, "key")
    /\ DifferInit
    /\ probe = NoProbe
    /\ scenario = NoScenario
    /\ OtherInit

FirstData ==
    /\ scenario.step = 0
    /\ \E f1 \in ScenarioA1, f2 \in ScenarioA1, v1 \in 1..Len(Variants), v2 \in 1..Len(Variants) :
           /\ ScenarioPoll(<<FirstOkAt(v1, <<f1>>), FirstOkAt(v2, <<f2>>)>>)
           /\ scenario' = [step |-> 1, first |-> f1, second |-> f2, old |-> f1]
    /\ UNCHANGED <<fetch, probe, otherVars>>

IdenticalData ==
    /\ scenario.step = 1
    /\ \E v1 \in 1..Len(Variants), v2 \in 1..Len(Variants) :
           ScenarioPoll(<<FirstOkAt(v1, <<scenario.first>>),
                          FirstOkAt(v2, <<scenario.second>>)>>)
    /\ scenario' = [scenario EXCEPT !.step = 2]
    /\ UNCHANGED <<fetch, probe, otherVars>>

AdviceChanged ==
    /\ scenario.step = 2
    /\ \E a \in (1..NumAdvice) \ {scenario.first.adviceA}, f2 \in ScenarioA1,
          v1 \in 1..Len(Variants), v2 \in 1..Len(Variants) :
           LET f1 == [scenario.first EXCEPT !.adviceA = a]
           IN  /\ ScenarioPoll(<<FirstOkAt(v1, <<f1>>), FirstOkAt(v2, <<f2>>)>>)
               /\ scenario' = [step |-> 3, first |-> f1, second |-> f2,
                               old |-> scenario.first]
    /\ UNCHANGED <<fetch, probe, otherVars>>

A1Removed ==
    /\ scenario.step = 3
    /\ \E fs1 \in ScenarioRest, fs2 \in ScenarioRest,
          v1 \in 1..Len(Variants), v2 \in 1..Len(Variants) :
           ScenarioPoll(<<FirstOkAt(v1, fs1), FirstOkAt(v2, fs2)>>)
    /\ scenario' = [scenario EXCEPT !.step = 4]
    /\ UNCHANGED <<fetch, probe, otherVars>>

NextScenario == FirstData \/ IdenticalData \/ AdviceChanged \/ A1Removed

SpecScenario == InitScenario /\ [][NextScenario]_vars

(***************************************************************************)
(* Runs of update_entities as tasks.  Every trigger schedules a run; a run *)
(* goes on without interruption up to the await of the registry removal in *)
(* its clearing loop, where the event loop may take up another task.       *)
(***************************************************************************)
MaxInFlight == 2

ConcSnapshots ==
    {<<>>, <<Feature("A1", 0, "h", 1, TRUE, TRUE)>>,
     <<Feature("A1", 0, "h", 1, TRUE, TRUE), Feature("A2", 0, "h", 1, TRUE, TRUE)>>}

RECURSIVE ClearUntilAwait(_, _, _)
\* geo_location.py 202-219: the clearing loop over the ids still to clear, up
\* to its end, to its next suspension (the ids of yields are registered and
\* their removal from the registry suspends), or to the pop of an id that is
\* no longer in tracked_entities
ClearUntilAwait(ids, yields, trk) ==
    IF ids = {} THEN [tracked |-> trk, pending |-> {}, yields |-> {}, status |-> "completed"]
    ELSE LET k == CHOOSE x \in ids : TRUE
         IN  IF k \notin DOMAIN trk
             THEN [tracked |-> trk, pending |-> ids \ {k}, yields |-> yields,
                   status |-> "raised"]
             ELSE IF k \in yields
                  THEN [tracked |-> Pop(trk, k), pending |-> ids \ {k},
                        yields |-> yields \ {k}, status |-> "suspended"]
                  ELSE ClearUntilAwait(ids \ {k}, yields, Pop(trk, k))

\* the suspended runs and the latest outcome after the run at position i (or a
\* new run when i is past the end) has gone on to the point run
AfterRun(i, trigger, run) ==
    LET others == [j \in 1..(Len(conc.inflight) - (IF i <= Len(conc.inflight) THEN 1 ELSE 0)) |->
                      conc.inflight[IF j < i THEN j ELSE j + 1]]
    IN  IF run.status = "suspended"
        THEN [inflight |-> Append(others, [trigger |-> trigger, pending |-> run.pending,
                                           yields |-> run.yields]),
              outcome |-> conc.outcome]
        ELSE [inflight |-> others, outcome |-> run.status]

\* geo_location.py 74-219: a run of update_entities from its start
StartPass(trigger, fs, r) ==
    /\ Len(conc.inflight) < MaxInFlight
    /\ data' = fs
    /\ refs' = r
    /\ LET current == DOMAIN tracked
           scope == HazardsInScope(fs, r)
           processed == ProcessScope(ScopeKeys(fs, r, <<>>), scope, current, tracked, <<>>)
           ids == ClearedIds(current, DOMAIN scope)
       IN  IF processed.raised
           THEN /\ tracked' = processed.tracked
                /\ conc' = [conc EXCEPT !.outcome = "raised"]
           ELSE \E yields \in SUBSET ids :
                    LET run == ClearUntilAwait(ids, yields, processed.tracked)
                    IN  /\ tracked' = run.tracked
                        /\ conc' = AfterRun(Len(conc.inflight) + 1, trigger, run)

InitConc ==
    /\ fetch = ApiCallState(PollPaths, "key")
    /\ DifferInit
    /\ probe = NoProbe
    /\ scenario = NoScenario
    /\ OtherInit

\* geo_location.py 221-230: coordinator_updated after a refresh
CoordinatorUpdated ==
    /\ \E fs \in ConcSnapshots : StartPass("coordinator", fs, refs)
    /\ UNCHANGED <<fetch, lastPass, phase, everAppeared, everCleared, net, probe, scenario,
                   trial, interval, cat_start, laterVars>>

\* geo_location.py 233-279: options_or_location_changed_listener on an options
\* update, a zone event or a state change of a device tracker
OptionsOrLocationChangedListener ==
    /\ \E r \in RefChoices : StartPass("options_or_location", data, r)
    /\ UNCHANGED <<fetch, lastPass, phase, everAppeared, everCleared, net, probe, scenario,
                   trial, interval, cat_start, laterVars>>

\* geo_location.py 214-219 and back to 202: a suspended run is resumed
ResumePass ==
    /\ \E i \in 1..Len(conc.inflight) :
           LET p == conc.inflight[i]
               run == ClearUntilAwait(p.pending, p.yields, tracked)
           IN  /\ tracked' = run.tracked
               /\ conc' = AfterRun(i, p.trigger, run)
    /\ UNCHANGED <<fetch, data, refs, lastPass, phase, everAppeared, everCleared, net, probe,
                   scenario, trial, interval, cat_start, laterVars>>

NextConc == CoordinatorUpdated \/ OptionsOrLocationChangedListener \/ ResumePass

SpecConc == InitConc /\ [][NextConc]_vars

(***************************************************************************)
(* update_entities on two snapshots in a row, the second one drawn from    *)
(* records of every shape: geometry that is no Point, coordinates missing, *)
(* too short or with an altitude, roads null.                              *)
(***************************************************************************)
MaxTrial == 2

TrialFirst == {Feature("A1", 0, "h", 1, TRUE, TRUE), Feature("A2", 0, "h", 1, TRUE, TRUE)}

TrialSecond ==
    {Feature("A1", l, "h", a, TRUE, TRUE) : l \in {0, 5}, a \in 1..NumAdvice}
        \cup {Feature("A2", l, "h", 1, TRUE, TRUE) : l \in {0, 5}}
        \cup {[Feature("A1", 0, "h", 1, TRUE, TRUE) EXCEPT !.geom = "LineString"],
              Feature("A1", NoLat, "h", 1, TRUE, TRUE),
              [Feature("A1", 0, "h", 1, TRUE, TRUE) EXCEPT !.ncoords = 1],
              [Feature("A1", 0, "h", 1, TRUE, TRUE) EXCEPT !.ncoords = 3],
              Feature("A1", 0, "h", 1, FALSE, TRUE)}

TrialRefs == [home |-> 0, home_radius_km |-> DEFAULT_HOME_RADIUS_KM,
              devices |-> <<>>, device_radius_km |-> DEFAULT_DEVICE_RADIUS_KM]

InitPass ==
    /\ fetch = ApiCallState(PollPaths, "key")
    /\ DifferInit
    /\ probe = NoProbe
    /\ scenario = NoScenario
    /\ conc = NoConc
    /\ interval = NoInterval
    /\ cat_start = 0
    /\ LaterInit
    /\ trial \in {[stage |-> "input", first |-> fs1, second |-> fs2, before |-> EmptyMap] :
                     fs1 \in Seqs(TrialFirst, MaxTrial), fs2 \in Seqs(TrialSecond, MaxTrial)}

\* geo_location.py 74-219: update_entities on the first snapshot
FirstPass ==
    /\ trial.stage = "input"
    /\ RunPass("coordinator", trial.first, TrialRefs, FALSE)
    /\ trial' = [trial EXCEPT !.stage = "first", !.before = tracked]
    /\ UNCHANGED <<fetch, probe, scenario, conc, interval, cat_start, laterVars>>

\* geo_location.py 74-219: update_entities on the second snapshot
SecondPass ==
    /\ trial.stage = "first"
    /\ RunPass("coordinator", trial.second, TrialRefs, FALSE)
    /\ trial' = [trial EXCEPT !.stage = "second", !.before = tracked]
    /\ UNCHANGED <<fetch, probe, scenario, conc, interval, cat_start, laterVars>>

NextPass == FirstPass \/ SecondPass

SpecPass == InitPass /\ [][NextPass]_vars

(***************************************************************************)
(* The coordinator's update interval.  The scan interval option is a       *)
(* number of minutes, whole or not: the model counts it in half minutes    *)
(* and the timedelta in seconds.                                           *)
(***************************************************************************)
MaxScan == 60

DEFAULT_SCAN_INTERVAL_MINUTES == 5

SecondsPerHalfMinute == 30

\* timedelta(minutes=m) in seconds, for m given in half minutes
TimedeltaMinutes(halves) == SecondsPerHalfMinute * halves

\* coordinator.py 39-49 without the floor
UpdateIntervalNoFloor(present, halves) ==
    IF present THEN TimedeltaMinutes(halves)
    ELSE TimedeltaMinutes(2 * DEFAULT_SCAN_INTERVAL_MINUTES)

\* coordinator.py 39-49: update_interval for the options of the config entry
UpdateInterval(present, halves) ==
    LET scan_interval_minutes == IF present THEN halves
                                 ELSE 2 * DEFAULT_SCAN_INTERVAL_MINUTES
        update_interval == TimedeltaMinutes(scan_interval_minutes)
    IN  IF update_interval < TimedeltaMinutes(2) THEN TimedeltaMinutes(2)
        ELSE update_interval

InitInterval ==
    /\ fetch = ApiCallState(PollPaths, "key")
    /\ DifferInit
    /\ probe = NoProbe
    /\ scenario = NoScenario
    /\ conc = NoConc
    /\ trial = NoTrial
    /\ cat_start = 0
    /\ LaterInit
    /\ interval \in {[stage |-> "options", present |-> TRUE, scan |-> h,
                        update_interval |-> 0] : h \in (-MaxScan)..MaxScan}
                          \cup {[stage |-> "options", present |-> FALSE, scan |-> 0,
                                 update_interval |-> 0]}

\* coordinator.py 27-61: NswLiveTrafficDataUpdateCoordinator.__init__
CoordinatorInit ==
    /\ interval.stage = "options"
    /\ interval' = [interval EXCEPT !.stage = "built",
                                    !.update_interval = UpdateInterval(interval.present,
                                                                       interval.scan)]
    /\ UNCHANGED <<fetch, differVars, probe, scenario, conc, trial, cat_start, laterVars>>

NextInterval == CoordinatorInit

SpecInterval == InitInterval /\ [][NextInterval]_vars

(***************************************************************************)
(* Polls of an upstream that holds records whether or not it answers: each *)
(* category holds at most one record and answers with its records, with a  *)
(* connection error, or with 401 or 403 on every variant.                  *)
(***************************************************************************)
OutageKinds == {"ok", "error", "401", "403"}

\* the records the upstream holds per category: hazard A1 is an incident,
\* hazard A2 is roadwork
OutageHolds ==
    <<{<<>>} \cup {<<Feature("A1", l, "h", 1, TRUE, TRUE)>> : l \in PollLats},
      {<<>>, <<Feature("A2", 0, "h", 1, TRUE, TRUE)>>}>>

OutageUpstreams ==
    {<<[holds |-> h1, kind |-> k1], [holds |-> h2, kind |-> k2]>> :
        h1 \in OutageHolds[1], h2 \in OutageHolds[2], k1 \in OutageKinds, k2 \in OutageKinds}

\* what the endpoint variants of each category answer
OutageAnswers(up) ==
    [c \in 1..Len(up) |->
        Always(IF up[c].kind = "ok" THEN Response("ok", up[c].holds)
               ELSE Response(up[c].kind, <<>>))]

InitOutage ==
    /\ fetch = ApiCallState(PollPaths, "key")
    /\ DifferInit
    /\ probe = NoProbe
    /\ scenario = NoScenario
    /\ OtherInit

\* coordinator.py 63-100 and geo_location.py 221-227: a refresh of the
\* coordinator against the upstream up, then coordinator_updated
PollUpstream ==
    /\ \E up \in OutageUpstreams :
           /\ upstream' = up
           /\ \E st \in {GetHazards(ApiCallState(PollPaths, "key"), OutageAnswers(up))} :
                  IF AsyncUpdateData(st).error = "none"
                  THEN RunPass("coordinator", AsyncUpdateData(st).features, refs, st.saw401)
                  ELSE /\ lastPass' = [lastPass EXCEPT !.failed = TRUE, !.completed = FALSE,
                                                       !.events = <<>>,
                                                       !.before = DOMAIN tracked,
                                                       !.saw401 = st.saw401,
                                                       !.processed = FALSE,
                                                       !.repeat = FALSE, !.kept = TRUE]
                       /\ UNCHANGED <<data, refs, tracked, phase, everAppeared, everCleared,
                                      net>>
    /\ UNCHANGED <<fetch, probe, scenario, conc, trial, interval, cat_start, sensor, flow>>

NextOutage == PollUpstream

SpecOutage == InitOutage /\ [][NextOutage]_vars

(***************************************************************************)
(* One count sensor on the snapshot of a refresh.  All records are of the  *)
(* sensor's hazard type; home is the only reference point.                 *)
(***************************************************************************)
SensorFeatures ==
    {Feature("A1", 0, "h", 1, TRUE, TRUE), Feature(NullId, 0, "h", 1, TRUE, TRUE),
     EmptyIdFeature, Feature("A1", 0, "h", 1, FALSE, TRUE),
     Feature("A2", NoLat, "h", 1, TRUE, TRUE)}

RECURSIVE NativeValueLoop(_, _, _, _, _)
\* sensor.py 153-203: the loop of native_value from the i-th hazard on
NativeValueLoop(fs, i, r, count, counted) ==
    IF i > Len(fs) THEN count
    ELSE LET f == fs[i]
             hazard_id == StrId(f.id)
         IN  IF ~SensorNearby(f, r)
             THEN NativeValueLoop(fs, i + 1, r, count, counted)
             ELSE IF hazard_id # "" /\ hazard_id \notin counted
                  THEN NativeValueLoop(fs, i + 1, r, count + 1, counted \cup {hazard_id})
                  ELSE IF hazard_id = ""
                       THEN NativeValueLoop(fs, i + 1, r, count + 1, counted)
                       ELSE NativeValueLoop(fs, i + 1, r, count, counted)

\* sensor.py 129-203: native_value on coordinator.data["features"]
NativeValue(fs, r) == NativeValueLoop(fs, 1, r, 0, {})

RECURSIVE HazardsListLoop(_, _, _, _)
\* sensor.py 234-331: the loop of extra_state_attributes from the i-th hazard
\* on.  An id already added is logged as skipped but not skipped (lines
\* 242-252 continue only for an empty id); the comprehension over
\* properties["roads"] at line 324 raises on null, which the except at line
\* 329 turns into a continue.
HazardsListLoop(fs, i, r, list) ==
    IF i > Len(fs) THEN list
    ELSE LET f == fs[i]
             hazard_id_api == StrId(f.id)
         IN  IF ~f.isDict \/ hazard_id_api = ""
             THEN HazardsListLoop(fs, i + 1, r, list)
             ELSE IF SensorZone(f, r).zone_type = "none" \/ ~f.roadsOk
                  THEN HazardsListLoop(fs, i + 1, r, list)
                  ELSE HazardsListLoop(fs, i + 1, r,
                                       Append(list, [hazard_id |-> hazard_id_api,
                                                     headline |-> f.headline,
                                                     latitude |-> f.lat,
                                                     zone_type |-> SensorZone(f, r).zone_type]))

\* sensor.py 205-340: nearby_hazards_list of extra_state_attributes
NearbyHazardsList(fs, r) == HazardsListLoop(fs, 1, r, <<>>)

InitSensor ==
    /\ fetch = ApiCallState(PollPaths, "key")
    /\ DifferInit
    /\ probe = NoProbe
    /\ scenario = NoScenario
    /\ conc = NoConc
    /\ trial = NoTrial
    /\ interval = NoInterval
    /\ cat_start = 0
    /\ upstream = NoUpstream
    /\ flow = NoFlow
    /\ sensor \in {[stage |-> "upstream", answers |-> <<fs1, fs2>>, value |-> 0,
                    list |-> <<>>] :
                      fs1 \in Seqs(SensorFeatures, MaxLen), fs2 \in Seqs(SensorFeatures, MaxLen)}

\* coordinator.py 63-100: a refresh whose categories answer sensor.answers
SensorRefresh ==
    /\ sensor.stage = "upstream"
    /\ data' = AsyncUpdateData(GetHazards(ApiCallState(PollPaths, "key"),
                                          [c \in 1..Len(PollPaths) |->
                                              Always(Response("ok", sensor.answers[c]))])).features
    /\ sensor' = [sensor EXCEPT !.stage = "data"]
    /\ UNCHANGED <<fetch, refs, tracked, lastPass, phase, everAppeared, everCleared, net,
                   probe, scenario, conc, trial, interval, cat_start, upstream, flow>>

\* sensor.py 129-203: the state of the sensor is read
SensorValue ==
    /\ sensor.stage = "data"
    /\ sensor' = [sensor EXCEPT !.stage = "value", !.value = NativeValue(data, refs)]
    /\ UNCHANGED <<fetch, differVars, probe, scenario, conc, trial, interval, cat_start,
                   upstream, flow>>

\* sensor.py 205-340: the attributes of the sensor are read
SensorAttributes ==
    /\ sensor.stage = "value"
    /\ sensor' = [sensor EXCEPT !.stage = "attributes",
                                !.list = NearbyHazardsList(data, refs)]
    /\ UNCHANGED <<fetch, differVars, probe, scenario, conc, trial, interval, cat_start,
                   upstream, flow>>

NextSensor == SensorRefresh \/ SensorValue \/ SensorAttributes

SpecSensor == InitSensor /\ [][NextSensor]_vars

(***************************************************************************)
(* The user step of the config flow: the test call of _validate_api_key    *)
(* against an upstream whose categories answer each in one way.            *)
(***************************************************************************)
FlowAnswers == [1..Len(PollPaths) -> ResponseKinds]

\* config_flow.py 40-60: the error key _validate_api_key returns for the test
\* call that ended in the state st, "none" for None
ValidateApiKey(st) ==
    IF st.raised = "InvalidApiKeyError" THEN "invalid_auth"
    ELSE IF st.raised = "ApiForbiddenError" THEN "api_forbidden"
    ELSE IF st.raised = "ApiError" THEN "cannot_connect"
    ELSE IF st.raised # "none" THEN "unknown"
    ELSE "none"

InitFlow ==
    /\ fetch = ApiCallState(PollPaths, "key")
    /\ DifferInit
    /\ probe = NoProbe
    /\ scenario = NoScenario
    /\ conc = NoConc
    /\ trial = NoTrial
    /\ interval = NoInterval
    /\ cat_start = 0
    /\ upstream = NoUpstream
    /\ sensor = NoSensor
    /\ flow \in {[stage |-> "form", api_key |-> k, answers |-> a, errors |-> "none",
                  created |-> FALSE] : k \in ApiKeys, a \in FlowAnswers}

\* config_flow.py 62-94: async_step_user on a submitted form
StepUser ==
    /\ flow.stage = "form"
    /\ LET st == GetHazards(ApiCallState(PollPaths, flow.api_key),
                            [c \in 1..Len(PollPaths) |->
                                Always(Response(flow.answers[c], <<>>))])
           validation_error == ValidateApiKey(st)
       IN  flow' = [flow EXCEPT !.stage = "done", !.errors = validation_error,
                                !.created = (validation_error = "none")]
    /\ UNCHANGED <<fetch, differVars, probe, scenario, conc, trial, interval, cat_start,
                   upstream, sensor>>

NextFlow == StepUser

SpecFlow == InitFlow /\ [][NextFlow]_vars

(***************************************************************************)
(* Properties.                                                             *)
(***************************************************************************)
Elems(s) == {s[i] : i \in 1..Len(s)}

HasId(f) == f.isDict /\ f.id # NullId /\ f.id # ""

Idless(f) == f.isDict /\ (f.id = NullId \/ f.id = "")

RECURSIVE CountIdless(_)
CountIdless(s) ==
    IF s = <<>> THEN 0
    ELSE (IF Idless(Head(s)) THEN 1 ELSE 0) + CountIdless(Tail(s))

RealKeys == AllKeys \ {StrId(NullId)}

IsPrefix(s, t) == Len(s) <= Len(t) /\ \A i \in 1..Len(s) : s[i] = t[i]

\* C1: after every completed run of update_entities the keys of tracked_entities
\* are exactly the hazard ids that were in scope in that run (read here for the
\* hazards that carry an id).
C1_TrackedEqualsInScope ==
    (lastPass.trigger # "none" /\ ~lastPass.failed /\ lastPass.completed)
        => DOMAIN tracked \cap RealKeys = lastPass.scope \cap RealKeys

\* C2: the events emitted for one hazard id follow the cycle Appeared, Updated*,
\* Cleared (no second Appeared without a Cleared, no Updated or Cleared for an
\* id that is not tracked), and an id is tracked exactly when its latest cycle
\* is open.
C2_EventCycle ==
    \A k \in AllKeys :
        /\ phase[k] # "Error"
        /\ phase[k] = "Tracked" <=> k \in DOMAIN tracked

C2_Witness ==
    \E k \in AllKeys :
        /\ k \in everCleared
        /\ phase[k] = "Tracked"
        /\ k \in IdsOf(lastPass.events, "Updated")

\* C3: within one run of update_entities the sets of ids marked Appeared, Updated
\* and Cleared are pairwise disjoint.
C3_DisjointKinds ==
    /\ IdsOf(lastPass.events, "Appeared") \cap IdsOf(lastPass.events, "Updated") = {}
    /\ IdsOf(lastPass.events, "Appeared") \cap IdsOf(lastPass.events, "Cleared") = {}
    /\ IdsOf(lastPass.events, "Updated") \cap IdsOf(lastPass.events, "Cleared") = {}
    /\ \A k \in AllKeys :
           Count(lastPass.events, "Appeared", k) + Count(lastPass.events, "Updated", k)
               + Count(lastPass.events, "Cleared", k) <= 1

C3_Witness ==
    /\ IdsOf(lastPass.events, "Appeared") # {}
    /\ IdsOf(lastPass.events, "Updated") # {}
    /\ IdsOf(lastPass.events, "Cleared") # {}

\* C4: a fetch in which an endpoint answered HTTP 401 ends by raising
\* InvalidApiKeyError, which the coordinator turns into ConfigEntryAuthFailed.
C4_UnauthorizedIsRaised ==
    (fetch.saw401 /\ fetch.status \in {"done", "raised"})
        => /\ fetch.raised = "InvalidApiKeyError"
           /\ AsyncUpdateData(fetch).error = "ConfigEntryAuthFailed"

\* C5: a poll whose fetch met HTTP 401 emits no transition event and leaves
\* tracked_entities as it was.
C5_UnauthorizedPollChangesNothing ==
    lastPass.saw401 => (lastPass.events = <<>> /\ lastPass.kept)

\* C6: a run of update_entities on the in-scope snapshot of the run before it
\* (same records in the same order, same reference points) emits no event and
\* leaves tracked_entities unchanged.
C6_Idempotent ==
    lastPass.repeat => (lastPass.events = <<>> /\ lastPass.kept)

C6_Witness ==
    /\ lastPass.repeat
    /\ lastPass.completed
    /\ Cardinality(lastPass.scope) >= 2
    /\ DOMAIN tracked = lastPass.scope

\* C7 as stated: the ids ever marked Appeared minus the ids ever marked Cleared
\* are the tracked ids (read here for the hazards that carry an id).
C7_SetDifference ==
    (lastPass.trigger # "none" /\ lastPass.completed)
        => (everAppeared \ everCleared) \cap RealKeys = DOMAIN tracked \cap RealKeys

\* C7 amended: for every id, the number of Appeared events emitted so far minus
\* the number of Cleared events emitted so far is 1 when the id is tracked and
\* 0 when it is not.
C7_AppearedMinusCleared ==
    \A k \in AllKeys : net[k] = (IF k \in DOMAIN tracked THEN 1 ELSE 0)

C7_Witness ==
    \E k \in AllKeys : k \in everCleared /\ k \in DOMAIN tracked /\ lastPass.completed

\* C8: in the merged features every feature id occurs exactly once, and the
\* instance kept is the first one seen: a feature already merged is never
\* replaced or moved, and an id first met in an accepted answer is kept as the
\* first feature of that answer carrying it.
C8_MergeDedup ==
    fetch.last.kind = "ok" =>
        /\ \A i, j \in 1..Len(fetch.all_features) :
               (i < j /\ HasId(fetch.all_features[i]) /\ HasId(fetch.all_features[j]))
                   => fetch.all_features[i].id # fetch.all_features[j].id
        /\ IsPrefix(fetch.prev_features, fetch.all_features)
        /\ fetch.lastOutcome = "success" =>
               \A f \in {g \in Elems(fetch.last.features) : HasId(g)} :
                   LET kept == SelectSeqBy(fetch.all_features, f.id)
                       old == SelectSeqBy(fetch.prev_features, f.id)
                       new == SelectSeqBy(fetch.last.features, f.id)
                   IN  /\ Len(kept) = 1
                       /\ kept[1] = IF old # <<>> THEN old[1] ELSE new[1]

C8_Witness ==
    /\ fetch.status = "done"
    /\ fetch.lastOutcome = "success"
    /\ Len(fetch.paths) = 2
    /\ \E i \in 1..Len(fetch.prev_features), j \in 1..Len(fetch.last.features) :
           /\ HasId(fetch.last.features[j])
           /\ fetch.prev_features[i].id = fetch.last.features[j].id
           /\ fetch.prev_features[i] # fetch.last.features[j]
    /\ \E i, j \in 1..Len(fetch.last.features) :
           /\ i < j
           /\ HasId(fetch.last.features[i])
           /\ fetch.last.features[i].id = fetch.last.features[j].id

\* C9: features without an id are never deduplicated: every id-less feature of
\* an accepted answer is appended to the merged features.
C9_IdlessAlwaysAppended ==
    fetch.lastOutcome = "success" =>
        CountIdless(fetch.all_features)
            = CountIdless(fetch.prev_features) + CountIdless(fetch.last.features)

\* C10: a well-formed record without an id that is in scope gets Appeared in
\* every run of update_entities, never being matched against tracked state.
C10_IdlessAlwaysAppears ==
    (lastPass.trigger # "none" /\ ~lastPass.failed /\ lastPass.completed
        /\ \E f \in Elems(data) : f.id = NullId /\ f.roadsOk /\ InScope(f, refs))
        => StrId(NullId) \in IdsOf(lastPass.events, "Appeared")

(***************************************************************************)
(* The requests of a call, in the order they were issued.                  *)
(***************************************************************************)
\* the request that follows the i-th one: the next one issued, or the one the
\* call is about to issue, or none when the call has returned
Following(i) ==
    IF i < Len(fetch.requested)
    THEN [category |-> fetch.requested[i + 1].category,
          variant |-> fetch.requested[i + 1].variant]
    ELSE IF fetch.status = "fetching"
         THEN [category |-> fetch.idx, variant |-> Variants[fetch.attempt]]
         ELSE [category |-> 0, variant |-> "returned"]

\* what follows a request that ended its category: the first variant of the
\* next category, or the return of the call after the last category
NextCategoryOrReturn(i) ==
    IF fetch.requested[i].category < Len(fetch.paths)
    THEN [category |-> fetch.requested[i].category + 1, variant |-> Variants[1]]
    ELSE [category |-> 0, variant |-> "returned"]

\* the variants requested for category c, in order
VariantsRequested(c) ==
    LET sel == SelectSeq(fetch.requested, LAMBDA e : e.category = c)
    IN  [i \in 1..Len(sel) |-> sel[i].variant]

\* C11: for each category the variants are requested in the order "/open",
\* "/all", bare category, and a variant that answers a mapping containing a
\* "features" list is accepted: no later variant of that category is requested.
C11_FirstValidAccepted ==
    /\ \A c \in 1..Len(fetch.paths) : IsPrefix(VariantsRequested(c), Variants)
    /\ \A i \in 1..Len(fetch.requested) :
           fetch.requested[i].answer = "valid" => Following(i) = NextCategoryOrReturn(i)

\* C12: after a variant answers 401 or 403 no further variant of that category
\* is requested, and the call goes on with the first variant of the next
\* category (or returns normally after the last one).
C12_AuthFailureEndsCategoryOnly ==
    /\ \A i \in 1..Len(fetch.requested) :
           fetch.requested[i].answer = "auth" => Following(i) = NextCategoryOrReturn(i)
    /\ (fetch.status = "done" /\ fetch.paths # <<>>)
           => \A c \in 1..Len(fetch.paths) : VariantsRequested(c) # <<>>

C12_Witness ==
    /\ fetch.status = "done"
    /\ Len(fetch.paths) = 2
    /\ \E i \in 1..Len(fetch.requested) :
           /\ fetch.requested[i].answer = "auth"
           /\ fetch.requested[i].category = 1
           /\ fetch.requested[i].variant = "/all"
    /\ fetch.lastOutcome = "success"

\* C13: a variant that fails otherwise than by 401/403 is followed by the next
\* variant of the same category, and the failure of the third variant by the
\* first variant of the next category (or by the return of the call); the
\* merged features are left as they were.
C13_FailureTriesNextVariant ==
    /\ \A i \in 1..Len(fetch.requested) :
           fetch.requested[i].answer = "failed" =>
               IF fetch.requested[i].variant # Variants[Len(Variants)]
               THEN \E v \in 1..(Len(Variants) - 1) :
                        /\ fetch.requested[i].variant = Variants[v]
                        /\ Following(i) = [category |-> fetch.requested[i].category,
                                           variant |-> Variants[v + 1]]
               ELSE Following(i) = NextCategoryOrReturn(i)
    /\ (fetch.requested # <<>> /\ AnswerClass(fetch.last) = "failed") =>
           /\ fetch.all_features = fetch.prev_features
           /\ fetch.raised = "none"

C13_Witness ==
    /\ fetch.status = "fetching"
    /\ fetch.idx = 2
    /\ fetch.attempt = 2
    /\ Len(fetch.requested) = 4
    /\ \A i \in 1..4 : fetch.requested[i].answer = "failed"
    /\ fetch.last.kind = "400"

RECURSIVE DedupAppend(_, _)
\* all followed by the features of fs, in order, that carry no id or an id that
\* no feature before them carries
DedupAppend(all, fs) ==
    IF fs = <<>> THEN all
    ELSE IF HasId(Head(fs)) /\ \E g \in Elems(all) : HasId(g) /\ g.id = Head(fs).id
         THEN DedupAppend(all, Tail(fs))
         ELSE DedupAppend(Append(all, Head(fs)), Tail(fs))

\* C14: in a call that met no 401/403 the merged features are the deduplicated
\* features of the categories fetched successfully: an answer that was not
\* accepted as its category's successful variant leaves them as they were, an
\* accepted answer adds its features that are not duplicates, and the call
\* returns a FeatureCollection, the empty one when no category was usable.
C14_ResultIsSuccessfulCategories ==
    (fetch.requested # <<>> /\ ~fetch.saw401 /\ ~fetch.saw403) =>
        /\ fetch.lastOutcome # "success" => fetch.all_features = fetch.prev_features
        /\ fetch.lastOutcome = "success" =>
               fetch.all_features = DedupAppend(fetch.prev_features, fetch.last.features)
        /\ fetch.status = "done" =>
               /\ fetch.raised = "none"
               /\ ApiResult(fetch).type = "FeatureCollection"
               /\ (\A i \in 1..Len(fetch.requested) : fetch.requested[i].answer # "valid")
                      => ApiResult(fetch).features = <<>>

\* C15 as stated: a call with an empty category list returns the empty
\* FeatureCollection, raises nothing and issues no request, whatever the client.
C15_EmptyListReturnsEmpty ==
    (fetch.paths = <<>> /\ fetch.status # "start") =>
        /\ fetch.status = "done"
        /\ fetch.raised = "none"
        /\ ApiResult(fetch) = [type |-> "FeatureCollection", features |-> <<>>]
        /\ fetch.requested = <<>>

\* C15 amended: a call with an empty category list issues no request; on a
\* client with a non-empty API key it returns the empty FeatureCollection and
\* raises nothing, on a client with an empty API key it raises
\* InvalidApiKeyError.
C15_EmptyListWithKey ==
    (fetch.paths = <<>> /\ fetch.status # "start") =>
        /\ fetch.requested = <<>>
        /\ IF fetch.api_key = ""
           THEN fetch.status = "raised" /\ fetch.raised = "InvalidApiKeyError"
           ELSE /\ fetch.status = "done"
                /\ fetch.raised = "none"
                /\ ApiResult(fetch) = [type |-> "FeatureCollection", features |-> <<>>]

C15_Witness ==
    /\ fetch.paths = <<>>
    /\ fetch.api_key # ""
    /\ fetch.status = "done"

(***************************************************************************)
(* The proximity filter as the specification words it.                     *)
(***************************************************************************)
ValidPoint(f) == f.isDict /\ f.geom = "Point" /\ f.lat # NoLat

Distance(a, b) == IF a >= b THEN a - b ELSE b - a

\* the record lies within the radius of the home point, which is enabled
WithinHome(f, r) ==
    /\ r.home # NoLat
    /\ r.home_radius_km > 0
    /\ Distance(r.home, f.lat) <= r.home_radius_km

\* the record lies within the radius of the i-th tracked point, which is enabled
WithinDevice(f, r, i) ==
    /\ r.devices[i] # NoLat
    /\ r.device_radius_km > 0
    /\ Distance(r.devices[i], f.lat) <= r.device_radius_km

\* C16: a record is in scope exactly when its point geometry is valid and it
\* lies within the radius of at least one enabled reference point, the
\* distance equal to the radius included.
C16_InScopeIffWithinRadius ==
    probe.stage # "input" =>
        (probe.in_scope <=>
            /\ ValidPoint(probe.f)
            /\ \/ WithinHome(probe.f, probe.r)
               \/ \E i \in 1..Len(probe.r.devices) : WithinDevice(probe.f, probe.r, i))

\* C17: through a reference point whose radius is 0 or less no record is put
\* in scope and none is counted as nearby or attributed to it, not even a
\* record located exactly at the point.
C17_NonPositiveRadiusDisables ==
    probe.stage = "sensor" =>
        /\ probe.r.home_radius_km <= 0 =>
               (~probe.is_near_home /\ probe.zone.zone_type # "home")
        /\ probe.r.device_radius_km <= 0 =>
               (~probe.is_near_device /\ probe.zone.zone_type # "device_tracker")
        /\ (probe.r.home_radius_km <= 0 /\ probe.r.device_radius_km <= 0) =>
               (~probe.in_scope /\ ~probe.nearby)

C20_UpdatedIffSignificantChange ==
    [][\A k \in DOMAIN tracked \cap DOMAIN HazardsInScope(data', refs') :
           LET new == HazardsInScope(data', refs')[k]
               changes == ChangedSignificantAttrs(tracked[k].attrs, ExtraStateAttributes(new))
               updates == {e \in Elems(lastPass'.events) :
                               e.kind = "Updated" /\ e.hazard_id = k}
           IN  /\ changes # {} <=> updates # {}
               /\ \A e \in updates : e.changes = changes]_vars

\* C19: the scenario's four polls emit exactly Appeared(A1); nothing;
\* Updated(A1) whose change set is exactly advice_a with its old and new value;
\* Cleared(A1); and the merged snapshot of the first three polls holds the
\* first category's A1 once.
C19_ScenarioEvents ==
    /\ scenario.step = 1 =>
           /\ data = <<scenario.first>>
           /\ lastPass.events = <<Event("Appeared", "A1", Entity(scenario.first), {})>>
    /\ scenario.step = 2 =>
           /\ data = <<scenario.first>>
           /\ lastPass.events = <<>>
    /\ scenario.step = 3 =>
           /\ data = <<scenario.first>>
           /\ Len(lastPass.events) = 1
           /\ lastPass.events[1].kind = "Updated"
           /\ lastPass.events[1].hazard_id = "A1"
           /\ lastPass.events[1].changes
                  = {[key |-> "advice_a", old |-> scenario.old.adviceA,
                      new |-> scenario.first.adviceA]}
    /\ scenario.step = 4 =>
           /\ \A i \in 1..Len(data) : data[i].id # "A1"
           /\ Len(lastPass.events) = 1
           /\ lastPass.events[1].kind = "Cleared"
           /\ lastPass.events[1].hazard_id = "A1"
           /\ lastPass.events[1].attrs = ExtraStateAttributes(scenario.first)
           /\ tracked = EmptyMap

C19_Witness ==
    /\ scenario.step = 4
    /\ scenario.second # scenario.first
    /\ IdsOf(lastPass.events, "Cleared") = {"A1"}
    /\ phase["A1"] = "Absent"
    /\ data # <<>>

\* C21: in every run of update_entities, every id that was tracked and is not
\* in the new in-scope set is removed from tracked_entities, and exactly one
\* Cleared event is emitted for it, carrying the name and the attributes stored
\* for it.
C21_ClearedOnLeavingScope ==
    [][\A k \in DOMAIN tracked \ DOMAIN HazardsInScope(data', refs') :
           /\ k \notin DOMAIN tracked'
           /\ Count(lastPass'.events, "Cleared", k) = 1
           /\ \A e \in Elems(lastPass'.events) :
                  (e.kind = "Cleared" /\ e.hazard_id = k)
                      => (e.name = tracked[k].name /\ e.attrs = tracked[k].attrs)]_vars

\* C22: a run of update_entities that aborts with an error leaves
\* tracked_entities as it was before the run and has emitted no event: no run
\* is partially committed.
C22_AbortedPassCommitsNothing ==
    (lastPass.trigger # "none" /\ ~lastPass.failed /\ ~lastPass.completed)
        => (lastPass.kept /\ lastPass.events = <<>>)

\* C23: no record aborts a run of update_entities: every run goes through all
\* records in scope and performs its clearing step.
C23_PassAlwaysCompletes ==
    (lastPass.trigger # "none" /\ ~lastPass.failed) => lastPass.completed

\* C24: at any time at most one run of update_entities has started and not
\* yet completed or failed, whatever triggered the runs.
C24_OnePassInFlight == Len(conc.inflight) <= 1

\* C25: asyncio.sleep(1) has been awaited once after every category that is
\* not the last one, whether its requests succeeded or failed, and not after
\* the last one: while category i is being requested i - 1 delays have been
\* applied, and a finished call over n categories has applied n - 1.
C25_DelayBetweenCategories ==
    /\ fetch.status = "fetching" => fetch.sleeps = fetch.idx - 1
    /\ (fetch.status = "done" /\ fetch.paths # <<>>) => fetch.sleeps = Len(fetch.paths) - 1
    /\ (fetch.status \in {"start", "raised"} \/ fetch.paths = <<>>) => fetch.sleeps = 0

\* a finished call over two categories whose first category failed
C25_Witness ==
    /\ fetch.status = "done"
    /\ Len(fetch.paths) = 2
    /\ fetch.sleeps = 1
    /\ \A i \in 1..Len(fetch.requested) :
           fetch.requested[i].category = 1 => fetch.requested[i].answer # "valid"

RECURSIVE IsSubseq(_, _)
\* a is b with some elements left out
IsSubseq(a, b) ==
    IF a = <<>> THEN TRUE
    ELSE IF b = <<>> THEN FALSE
    ELSE IF Head(a) = Head(b) THEN IsSubseq(Tail(a), Tail(b))
    ELSE IsSubseq(a, Tail(b))

\* C30: when a category is answered with a valid feature list, what the
\* category has added to all_features is that list, in its order, less the
\* features dropped as duplicates; the features of earlier categories precede.
C30_MergeOrder ==
    fetch.lastOutcome = "success"
        => IsSubseq(SubSeq(fetch.all_features, cat_start + 1, Len(fetch.all_features)),
                    fetch.last.features)

\* the record has a geometry that is no Point, or no coordinates, or fewer
\* than two of them
InvalidGeometry(f) == f.geom # "Point" \/ f.lat = NoLat \/ f.ncoords < 2

\* C26: every Appeared and every Updated event carries as latitude the
\* latitude of the record in scope under the event's id, and that is a number.
C26_EventsCarryCoordinates ==
    \A e \in Elems(lastPass.events) :
        e.kind \in {"Appeared", "Updated"}
            => /\ e.latitude # NoLat
               /\ e.latitude = HazardsInScope(data, refs)[e.hazard_id].lat

\* C27: a record with invalid geometry is never the record in scope under its
\* id and never the one tracked, and a snapshot gives the same run of
\* update_entities (tracked_entities, events, completion) with and without
\* its records of invalid geometry.
C27_InvalidGeometrySkipped ==
    trial.stage \in {"first", "second"}
        => LET without == SelectSeq(data, LAMBDA f : ~InvalidGeometry(f))
               res == UpdateEntities(without, refs, trial.before)
               scope == HazardsInScope(data, refs)
           IN  /\ \A k \in DOMAIN scope : ~InvalidGeometry(scope[k])
               /\ \A k \in DOMAIN tracked \ DOMAIN trial.before :
                      k \in DOMAIN scope
               /\ res.tracked = tracked
               /\ res.events = lastPass.events
               /\ res.completed = lastPass.completed

\* a completed run over a snapshot that holds a record of invalid geometry and
\* another record, which appeared
C27_Witness ==
    /\ trial.stage = "second"
    /\ \E i \in 1..Len(data) : InvalidGeometry(data[i])
    /\ lastPass.completed
    /\ \E e \in Elems(lastPass.events) : e.kind = "Appeared"

\* C29: after a run of update_entities, every id that was tracked before, is
\* in scope and has no significant attribute that differs from the stored one
\* is tracked with the entity of the new record (name, position, attributes)
\* and has no event.
C29_SilentReplace ==
    trial.stage \in {"first", "second"}
        => LET scope == HazardsInScope(data, refs)
           IN  \A k \in DOMAIN trial.before \cap DOMAIN scope :
                   (\A key \in SIGNIFICANT_ATTRIBUTE_KEYS :
                        trial.before[k].attrs[key] = ExtraStateAttributes(scope[k])[key])
                       => /\ k \in DOMAIN tracked
                          /\ tracked[k] = Entity(scope[k])
                          /\ \A e \in Elems(lastPass.events) : e.hazard_id # k

\* C28: for every scan interval option, the update_interval of the
\* coordinator is at least one minute, and it is the configured interval
\* whenever that is at least one minute.
C28_IntervalFloor ==
    interval.stage = "built"
        => /\ interval.update_interval >= 60
           /\ (interval.present /\ interval.scan >= 2)
                  => interval.update_interval = 30 * interval.scan

\* a coordinator built for an option of half a minute, of 0 or of less
C28_Witness ==
    /\ interval.stage = "built"
    /\ interval.present
    /\ interval.scan <= 1
    /\ interval.update_interval = 60

\* C31: an answer whose feature list could not be processed to its end, so
\* that the client went on to the next variant or gave the category up, has
\* added none of its features to all_features and none of its ids to
\* seen_feature_ids.
C31_RejectedVariantAddsNothing ==
    (fetch.last.kind = "ok" /\ fetch.lastOutcome \in {"continue", "exhausted"})
        => /\ Len(fetch.all_features) = Len(fetch.prev_features)
           /\ \A f \in Elems(fetch.last.features) :
                  (f.isDict /\ StrId(f.id) \in fetch.seen)
                      => \E g \in Elems(fetch.prev_features) : StrId(g.id) = StrId(f.id)

\* the category whose feed holds the hazard with key k, or 0
CategoryOf(up, k) ==
    IF \E c \in 1..Len(up) : \E f \in Elems(up[c].holds) : StrId(f.id) = k
    THEN CHOOSE c \in 1..Len(up) : \E f \in Elems(up[c].holds) : StrId(f.id) = k
    ELSE 0

\* the upstream holds a record with key k within range, in a category whose
\* fetch failed
HeldBehindFailure(up, k) ==
    /\ CategoryOf(up, k) # 0
    /\ up[CategoryOf(up, k)].kind # "ok"
    /\ \E f \in Elems(up[CategoryOf(up, k)].holds) : StrId(f.id) = k /\ InScope(f, refs)

AnswersOf(c) ==
    LET pick[i \in 0..Len(fetch.requested)] ==
            IF i = 0 THEN <<>>
            ELSE IF fetch.requested[i].category = c
                 THEN Append(pick[i - 1], fetch.requested[i].answer)
                 ELSE pick[i - 1]
    IN  pick[Len(fetch.requested)]

\* C33: a call of async_get_hazards makes at most three requests per category
\* and none for a category it has left, so that it ends after at most three
\* requests per requested category; a category whose first answer is 401, 403
\* or a mapping with a "features" list gets exactly that one request.
C33_BoundedRequests ==
    /\ Len(fetch.requested) <= Len(Variants) * Len(fetch.paths)
    /\ fetch.status = "fetching" => (fetch.idx <= Len(fetch.paths) /\ fetch.attempt <= Len(Variants))
    /\ \A c \in 1..Len(fetch.paths) :
           /\ Len(AnswersOf(c)) <= Len(Variants)
           /\ (fetch.status = "fetching" /\ c > fetch.idx) => AnswersOf(c) = <<>>
           /\ (AnswersOf(c) # <<>> /\ AnswersOf(c)[1] \in {"auth", "valid"})
                  => Len(AnswersOf(c)) = 1

C35_ValueIsListLength ==
    sensor.stage = "attributes" => sensor.value = Len(sensor.list)

C38_UnauthorizedKeyRejected ==
    flow.stage = "done"
        => /\ (\E c \in 1..Len(PollPaths) : flow.answers[c] = "401")
                  => (flow.errors = "invalid_auth" /\ ~flow.created)
           /\ ((\E c \in 1..Len(PollPaths) : flow.answers[c] = "403")
                  /\ \A c \in 1..Len(PollPaths) : flow.answers[c] # "401")
                  => (flow.errors = "api_forbidden" /\ ~flow.created)


\* C37: every pass the coordinator triggers fires the hazards-updated
\* "processed" event, after the Appeared, Updated and Cleared events of the pass.
C37_ProcessedAfterEveryCoordinatorPass ==
    (lastPass.trigger = "coordinator" /\ ~lastPass.failed) => lastPass.processed

====
